---- MODULE Spec2Model ----
(***************************************************************************)
(* A model of the two notebooks of the repository.                         *)
(*                                                                         *)
(*   Part_04.ipynb  ("Functions"): get_counts, double_list, sorted with a  *)
(*                  key, the fibo.py module written by %%writefile.        *)
(*   part_000       ("Ensemble Methods"): a kernel session that loads two  *)
(*                  CSV files, splits them, and plots score arrays.        *)
(*                                                                         *)
(* SpecFun applies the functions of Part_04.ipynb to inputs drawn from     *)
(* bounded sets.  Spec is a kernel session of either notebook: the user    *)
(* runs the selected cell (the selection then moves to the next cell) or   *)
(* selects another cell.                                                   *)
(***************************************************************************)
EXTENDS Integers, Sequences, FiniteSets, TLC

VARIABLES
    \* ---- SpecFun: one call of a function of Part_04.ipynb
    heap,     \* the list objects, by reference: heap[ref] is a list
    arg,      \* the actual parameter: a reference (a list) or an integer (fib2)
    etype,    \* the type of the elements of the caller's list: "int", "str", "tuple"; "n" for fib2
    call,     \* the call made: [fn, key, pre, ret, keyCalls]
    \* ---- Spec: a kernel session of one notebook
    nb,       \* the notebook: "functions" (Part_04.ipynb) or "ensemble" (part_000)
    env,      \* the session namespace: the bound names, each with the length of
              \* the first axis of its value (0: a value without one)
    files,    \* the files written to the working directory, with the names they define
    cursor,   \* the selected cell
    sel,      \* how many times the user selected a cell out of order
    last      \* the last cell run: [kind, cell, size, err, tried, done, iters, attempts, cf, ext]

funVars == <<heap, arg, etype, call>>
nbVars == <<nb, env, files, cursor, sel, last>>
vars == <<heap, arg, etype, call, nb, env, files, cursor, sel, last>>

(***************************************************************************)
(* Bounds of the model.                                                    *)
(***************************************************************************)
MaxLen == 3        \* longest input list
MaxStrLen == 2     \* longest string in an input list
MaxN == 7          \* largest argument of fib2
MaxSelects == 1    \* out-of-order selections in a session

Range(s) == {s[i] : i \in DOMAIN s}

None == 0          \* the reference no object has: what a function without return gives

(***************************************************************************)
(* Python values.  A str is the sequence of its characters (characters are *)
(* numbers), a tuple is a sequence, a list is a sequence; an int is an     *)
(* integer.                                                                *)
(***************************************************************************)
Chars == {1, 2}
Ints == {0, 1, 3}
SeqsUpTo(S, n) == UNION {[1..k -> S] : k \in 0..n}
Strs == SeqsUpTo(Chars, MaxStrLen)
\* (name, sex, age), as the student_tuples of the notebook
Tuples == {<<nm, sx, age>> : nm \in {1, 2}, sx \in {1, 2}, age \in {10, 12}}
ElemsOf(t) == CASE t = "int" -> Ints
                [] t = "str" -> Strs
                [] t = "tuple" -> Tuples

\* x * 2 of Python: the product of an int, the repetition of a str or tuple
Mul2(t, x) == IF t = "int" THEN x * 2 ELSE x \o x

\* x <= y of Python on str and tuple: lexicographic
RECURSIVE LexLeq(_, _)
LexLeq(x, y) ==
    IF x = <<>> THEN TRUE
    ELSE IF y = <<>> THEN FALSE
    ELSE IF Head(x) < Head(y) THEN TRUE
    ELSE IF Head(x) > Head(y) THEN FALSE
    ELSE LexLeq(Tail(x), Tail(y))

(***************************************************************************)
(* get_counts (Part_04.ipynb 26-36).  The dict counts is the sequence of   *)
(* its (key, value) pairs in insertion order, which is what list(items())  *)
(* returns.                                                                *)
(***************************************************************************)
HasKey(counts, x) == \E i \in DOMAIN counts : counts[i][1] = x

Incr(counts, x) ==
    [i \in DOMAIN counts |->
        IF counts[i][1] = x THEN <<x, counts[i][2] + 1>> ELSE counts[i]]

RECURSIVE CountLoopNoIncr(_, _)
CountLoopNoIncr(s, counts) ==
    IF s = <<>> THEN counts
    ELSE LET x == Head(s)
         IN CountLoopNoIncr(Tail(s),
                IF HasKey(counts, x) THEN counts
                ELSE Append(counts, <<x, 1>>))

RECURSIVE CountLoop(_, _)
CountLoop(s, counts) ==
    IF s = <<>> THEN counts
    ELSE LET x == Head(s)
         IN CountLoop(Tail(s),
                IF HasKey(counts, x) THEN Incr(counts, x)
                ELSE Append(counts, <<x, 1>>))

\* the mutant: counts[x] += 1 lost, every count stays 1
get_counts_no_incr(s) == CountLoopNoIncr(s, <<>>)

get_counts(s) == CountLoop(s, <<>>)

(***************************************************************************)
(* double_list (Part_04.ipynb 73-75): for pos in range(len(some_list)):    *)
(* some_list[pos] *= 2, on the object the caller passed; no return.        *)
(***************************************************************************)
RECURSIVE DoubleLoop(_, _, _)
DoubleLoop(t, lst, pos) ==
    IF pos > Len(lst) THEN lst
    ELSE DoubleLoop(t, [lst EXCEPT ![pos] = Mul2(t, @)], pos + 1)

\* the mutant: builds the doubled list as a new object and returns it
double_list_copy(t, h, ref) ==
    [heap |-> Append(h, DoubleLoop(t, h[ref], 1)), ret |-> Len(h) + 1]

double_list(t, h, ref) ==
    [heap |-> [h EXCEPT ![ref] = DoubleLoop(t, h[ref], 1)], ret |-> None]

(***************************************************************************)
(* fib2 (Part_04.ipynb 223-231).                                           *)
(***************************************************************************)
RECURSIVE Fib2Loop(_, _, _, _)
Fib2Loop(a, b, result, n) ==
    IF n >= 2
    THEN LET f == a + b
         IN Fib2Loop(b, f, Append(result, f), n - 1)
    ELSE result

\* the mutant: a, b = 1, 1
fib2_from_one(n) == Fib2Loop(1, 1, <<1>>, n)

fib2(n) == Fib2Loop(0, 1, <<1>>, n)

(***************************************************************************)
(* sorted (Part_04.ipynb 142-193).  "sorted returns a new sorted list";    *)
(* "the key corresponding to each item in the list is calculated once and  *)
(* then used for the entire sorting process": the items are decorated with *)
(* their keys, the decorated items are sorted by key (a stable insertion),  *)
(* and the items are returned in a new list.                               *)
(*   key "id"     no key argument: the item itself      (line 152)         *)
(*   key "len"    lambda x: len(x)                      (line 172)         *)
(*   key "third"  lambda s: s[2]                        (line 193)         *)
(***************************************************************************)
KeyOf(key, x) == CASE key = "len" -> Len(x)
                   [] key = "third" -> x[3]
                   [] OTHER -> x

\* k1 <= k2 on keys: integers for len and s[2]; with no key, the order of
\* the items themselves
KeyLeq(key, t, k1, k2) ==
    IF key = "id" /\ t # "int" THEN LexLeq(k1, k2) ELSE k1 <= k2

\* one decorated item per item of the list: the key is computed here, once
Decorate(key, lst) ==
    [i \in DOMAIN lst |-> [item |-> lst[i], k |-> KeyOf(key, lst[i]), idx |-> i]]

\* d goes after every item of out whose key is <= its own (stable)
InsertByKey(key, t, out, d) ==
    LET p == Cardinality({i \in DOMAIN out : KeyLeq(key, t, out[i].k, d.k)})
    IN SubSeq(out, 1, p) \o <<d>> \o SubSeq(out, p + 1, Len(out))

RECURSIVE SortDecorated(_, _, _, _)
SortDecorated(key, t, ds, out) ==
    IF ds = <<>> THEN out
    ELSE SortDecorated(key, t, Tail(ds), InsertByKey(key, t, out, Head(ds)))

\* how many times the key function ran on the item at each position
KeyCallsOf(ds) ==
    [i \in DOMAIN ds |-> Cardinality({j \in DOMAIN ds : ds[j].idx = i})]

SortItems(key, t, lst) ==
    LET ds == SortDecorated(key, t, Decorate(key, lst), <<>>)
    IN [i \in DOMAIN ds |-> ds[i].item]

\* the mutant of the frame: list.sort, which sorts the argument in place
sorted_in_place(key, t, h, ref) ==
    [heap |-> [h EXCEPT ![ref] = SortItems(key, t, h[ref])],
     ret |-> ref,
     keyCalls |-> KeyCallsOf(Decorate(key, h[ref]))]

\* the mutant of the order: the key argument is dropped
SortedItemsNoKey(key, t, lst) == SortItems("id", t, lst)

SortedItems(key, t, lst) == SortItems(key, t, lst)

sorted(key, t, h, ref) ==
    [heap |-> Append(h, SortedItems(key, t, h[ref])),
     ret |-> Len(h) + 1,
     keyCalls |-> KeyCallsOf(Decorate(key, h[ref]))]

(***************************************************************************)
(* The notebooks as kernel sessions.  A code cell is the sequence of its   *)
(* top-level statements; a statement is                                    *)
(*   k    what it is: plain, def, import, for, call, read_csv, writefile,  *)
(*        shell, timeit, magic, split                                      *)
(*   r    the names it reads from the session namespace                    *)
(*   w    the names it binds                                               *)
(*   n    how many times its loop body runs (1: no loop)                   *)
(*   f    the file it reads or writes ("" : none)                          *)
(*   cf   the loops and branches it defines or runs                        *)
(*   a    the name whose first-axis length its results take ("" : none)    *)
(*   len  the first-axis length of what it binds, when a = ""              *)
(***************************************************************************)
Stmt(k, r, w, n, f, cf, a, len) ==
    [k |-> k, r |-> r, w |-> w, n |-> n, f |-> f, cf |-> cf, a |-> a, len |-> len]

St(r, w) == Stmt("plain", r, w, 1, "", {}, "", 0)
\* def name(...): binds the function; cf is what its body holds
Def(w, cf) == Stmt("def", {}, w, 1, "", cf, "", 0)
\* import of an installed library
Import(w) == Stmt("import", {}, w, 1, "", {}, "", 0)
\* import of a module that is a file of the working directory
ImportFile(w, f) == Stmt("import", {}, w, 1, f, {}, "", 0)
\* for ... in ...: at top level, n iterations
For(r, w, n) == Stmt("for", r, w, n, "", {"for"}, "", 0)
\* a call of a function of the notebook whose body loops n times
Call(r, w, n, cf) == Stmt("call", r, w, n, "", cf, "", 0)
\* name = pd.read_csv(f)
ReadCsv(r, w, f, len) == Stmt("read_csv", r, w, 1, f, {}, "", len)
\* %%writefile f
WriteFile(f) == Stmt("writefile", {}, {}, 1, f, {}, "", 0)
\* !cat f
Shell(f) == Stmt("shell", {}, {}, 1, f, {}, "", 0)
\* %timeit, %%timeit: a loop of n iterations, in a namespace of its own
TimeIt(n) == Stmt("timeit", {}, {}, n, "", {"for"}, "", 0)
\* %matplotlib inline
Magic == Stmt("magic", {}, {}, 1, "", {}, "", 0)
\* a list literal, range(...) or np.arange(...) of len items
Lit(r, w, len) == Stmt("plain", r, w, 1, "", {}, "", len)
\* a result with one row per row of a
Like(r, w, a) == Stmt("plain", r, w, 1, "", {}, a, 0)
\* X_train, X_test, y_train, y_test = train_test_split(X, y, test_size=0.2, ...)
Split(r, w, a) == Stmt("split", r, w, 1, "", {}, a, 0)
\* name = np.mean(a, axis=1), name = np.std(a, axis=1)
Mean(r, w, a) == Stmt("mean", r, w, 1, "", {}, a, 0)
\* plt.plot(a, y, ...), plt.fill_between(a, y1 - y2, y1 + y2, ...)
Plot(r, a) == Stmt("plot", r, {}, 1, "", {}, a, 0)
\* plt.plot(a, np.mean(y, 1), ...)
PlotMean(r, a) == Stmt("plot_mean", r, {}, 1, "", {}, a, 0)

\* len(range(lo, hi, step)), len(np.arange(lo, hi, step)), step > 0
RangeLen(lo, hi, step) == IF hi > lo THEN (hi - lo + step - 1) \div step ELSE 0

\* cv=3: a score array has one row per x value and one column per fold
Folds == 3
\* axis=1 in np.mean and np.std
ScoreAxis == 1

\* the mutant: the reduction runs along the other axis
MeanLenAcrossRows(axis, n) == IF axis = 0 THEN n ELSE Folds

\* the length of np.mean(a, axis) and np.std(a, axis) for a of n rows
MeanLen(axis, n) == IF axis = 0 THEN Folds ELSE n

\* the libraries among the names a plotting call reads
Libs == {"np", "plt"}

\* "a total of 15120 data points"; "test (10K)"
ForestRows == 15120
MnistRows == 10000

\* test_size = 0.2, as the fraction 1/5
TestSizeNum == 1
TestSizeDen == 5
\* train_test_split: n_test = ceil(test_size * n), n_train = n - n_test
TestRows(n) == (n * TestSizeNum + TestSizeDen - 1) \div TestSizeDen
TrainRows(n) == n - TestRows(n)

\* ---- the code cells of Part_04.ipynb, top to bottom

\* lines 26-36: def get_counts(s):
FnCell1 == <<Def({"get_counts"}, {"for", "if"})>>

\* lines 54-55: a = ['a', 'c', 'd', 'a', 'c', 'a', 'd', 'b']
FnCell2 == <<Lit({}, {"a"}, 8),
    Call({"a", "get_counts"}, {}, 8, {"for", "if"})>>

\* lines 73-75: def double_list(some_list):
FnCell3 == <<Def({"double_list"}, {"for"})>>

\* lines 84-86: s = [1, 3, 5, 7]
FnCell4 == <<Lit({}, {"s"}, 4),
    Call({"double_list", "s"}, {}, 4, {"for"}),
    St({"s"}, {})>>

\* lines 102-104: s = ['pippo', 'pluto', 'paperino']
FnCell5 == <<Lit({}, {"s"}, 3),
    Call({"double_list", "s"}, {}, 3, {"for"}),
    St({"s"}, {})>>

\* lines 124-131: names = ['Alfred  ', 'carl', '  Danny    ', 'lucy   ']
FnCell6 == <<Lit({}, {"names"}, 4),
    Lit({}, {"clean_ops"}, 2),
    Lit({}, {"result"}, 0),
    For({"clean_ops", "names", "result"}, {"f", "s"}, 4),
    St({"result"}, {})>>

\* lines 151-152: strings = ['foo', 'bar', 'baz', 'f', 'fo', 'b', 'ba']
FnCell7 == <<Lit({}, {"strings"}, 7),
    St({"strings"}, {})>>

\* lines 172-172: sorted(strings, key = lambda x: len(x))
FnCell8 == <<St({"strings"}, {})>>

\* lines 188-193: student_tuples = [
FnCell9 == <<Lit({}, {"student_tuples"}, 3),
    St({"student_tuples"}, {})>>

\* lines 210-231: %%writefile fibo.py
FnCell10 == <<WriteFile("fibo.py")>>

\* lines 247-247: !cat fibo.py
FnCell11 == <<Shell("fibo.py")>>

\* lines 267-268: import fibo
FnCell12 == <<ImportFile({"fibo"}, "fibo.py"),
    Call({"fibo"}, {}, 4, {"while"})>>

\* lines 284-284: %timeit [n ** 2 for n in range(1000)]
FnCell13 == <<TimeIt(1000)>>

\* lines 304-306: %%timeit L = []
FnCell14 == <<TimeIt(1000)>>

FnCells == <<FnCell1, FnCell2, FnCell3, FnCell4, FnCell5, FnCell6,
    FnCell7, FnCell8, FnCell9, FnCell10, FnCell11, FnCell12,
    FnCell13, FnCell14>>

\* ---- the code cells of part_000, top to bottom

\* lines 23-34: import numpy as np
EnsCell1 == <<Import({"np"}),
    Import({"pd"}),
    Import({"sns"}),
    Import({"plt"}),
    Import({"accuracy_score"}),
    Import({"DecisionTreeClassifier"}),
    Import({"RandomForestClassifier"}),
    Import({"BaggingClassifier"}),
    Import({"cross_val_score", "learning_curve", "train_test_split", "validation_curve"}),
    Magic>>

\* lines 51-52: forest = pd.read_csv('../Datasets/forest-cover-type.csv')
EnsCell2 == <<ReadCsv({"pd"}, {"forest"}, "../Datasets/forest-cover-type.csv", ForestRows),
    St({"forest"}, {})>>

\* lines 61-61: forest.head()
EnsCell3 == <<St({"forest"}, {})>>

\* lines 77-77: ax = sns.countplot(x="Cover_Type", data=forest)
EnsCell4 == <<St({"forest", "sns"}, {"ax"})>>

\* lines 93-93: forest.isna().sum() # check for missing values in columns
EnsCell5 == <<St({"forest"}, {})>>

\* lines 109-112: X = forest.drop(columns=['Id', 'Cover_Type']).values
EnsCell6 == <<Like({"forest"}, {"X"}, "forest"),
    Like({"forest"}, {"y"}, "forest"),
    Split({"X", "train_test_split", "y"}, {"X_test", "X_train", "y_test", "y_train"}, "X")>>

\* lines 128-133: learner = DecisionTreeClassifier(criterion='gini')
EnsCell7 == <<St({"DecisionTreeClassifier"}, {"learner"}),
    St({"X_train", "learner", "y_train"}, {}),
    St({"X_test", "learner"}, {"y_pred"}),
    St({"accuracy_score", "y_pred", "y_test"}, {"test_score"}),
    St({"np", "test_score"}, {})>>

\* lines 149-149: int(learner.tree_.node_count), int(learner.tree_.max_depth)
EnsCell8 == <<St({"learner"}, {})>>

\* lines 165-166: scores = cross_val_score(learner, X, y, cv=5)
EnsCell9 == <<St({"X", "cross_val_score", "learner", "y"}, {"scores"}),
    St({"np", "scores"}, {})>>

\* lines 182-185: learner = DecisionTreeClassifier(criterion='entropy')
EnsCell10 == <<St({"DecisionTreeClassifier"}, {"learner"}),
    St({"X", "cross_val_score", "learner", "y"}, {"scores"}),
    St({"np", "scores"}, {})>>

\* lines 201-202: sizes = range(1000, 10001, 2000)
EnsCell11 == <<Lit({}, {"sizes"}, RangeLen(1000, 10001, 2000)),
    Like({"X", "learner", "learning_curve", "sizes", "y"}, {"train_score", "train_size", "val_score"}, "sizes")>>

\* lines 213-231: the plot of the training and CV scores against x
PlotCurve(x) == <<St({"plt"}, {}),
    Mean({"np", "train_score"}, {"train_score_mean"}, "train_score"),
    Mean({"np", "train_score"}, {"train_score_std"}, "train_score"),
    Mean({"np", "val_score"}, {"val_score_mean"}, "val_score"),
    Mean({"np", "val_score"}, {"val_score_std"}, "val_score"),
    St({"plt"}, {}),
    Plot({x, "plt", "train_score_mean", "train_score_std"}, x),
    Plot({x, "plt", "val_score_mean", "val_score_std"}, x),
    Plot({x, "plt", "train_score_mean"}, x),
    Plot({x, "plt", "val_score_mean"}, x),
    St({"plt"}, {}),
    St({"plt"}, {}),
    St({"plt"}, {}),
    St({"plt"}, {})>>

\* lines 213-231: plt.title('Decision tree')
EnsCell12 == PlotCurve("train_size")

\* lines 247-247: list(np.round(np.mean(val_score, 1), decimals=2))
EnsCell13 == <<St({"np", "val_score"}, {})>>

\* lines 263-265: depths = np.arange(1,33,5)
EnsCell14 == <<Lit({"np"}, {"depths"}, RangeLen(1, 33, 5)),
    St({"DecisionTreeClassifier"}, {"learner"}),
    Like({"X", "depths", "learner", "validation_curve", "y"}, {"train_score", "val_score"}, "depths")>>

\* lines 274-280: plt.title('Tree classifier vs. depth')
EnsCell15 == <<St({"plt"}, {}),
    PlotMean({"depths", "np", "plt", "val_score"}, "depths"),
    PlotMean({"depths", "np", "plt", "train_score"}, "depths"),
    St({"plt"}, {}),
    St({"plt"}, {}),
    St({"plt"}, {}),
    St({"plt"}, {})>>

\* lines 308-312: tree_lrn = DecisionTreeClassifier(criterion='gini')
EnsCell16 == <<St({"DecisionTreeClassifier"}, {"tree_lrn"}),
    St({"BaggingClassifier", "tree_lrn"}, {"bag_lrn"}),
    Lit({}, {"sizes"}, RangeLen(1000, 10001, 2000)),
    Like({"X", "bag_lrn", "learning_curve", "sizes", "y"}, {"train_score", "train_size", "val_score"}, "sizes")>>

\* lines 323-341: plt.title('A single bagging tree')
EnsCell17 == PlotCurve("train_size")

\* lines 357-357: list(np.round(np.mean(val_score, 1), decimals=2))
EnsCell18 == <<St({"np", "val_score"}, {})>>

\* lines 373-376: tree_lrn = DecisionTreeClassifier()
EnsCell19 == <<St({"DecisionTreeClassifier"}, {"tree_lrn"}),
    St({"BaggingClassifier", "tree_lrn"}, {"bag_lrn"}),
    Lit({}, {"sizes"}, RangeLen(1000, 10001, 2000)),
    Like({"X", "bag_lrn", "learning_curve", "sizes", "y"}, {"train_score", "train_size", "val_score"}, "sizes")>>

\* lines 387-405: plt.title('Bagging')
EnsCell20 == PlotCurve("train_size")

\* lines 421-421: list(np.round(np.mean(val_score, 1), decimals=2))
EnsCell21 == <<St({"np", "val_score"}, {})>>

\* lines 440-442: rf_lrn = RandomForestClassifier(n_estimators=10, max_depth=1
EnsCell22 == <<St({"RandomForestClassifier"}, {"rf_lrn"}),
    Lit({}, {"sizes"}, RangeLen(1000, 10001, 2000)),
    Like({"X", "learning_curve", "rf_lrn", "sizes", "y"}, {"train_score", "train_size", "val_score"}, "sizes")>>

\* lines 451-469: plt.title('Random Forest')
EnsCell23 == PlotCurve("train_size")

\* lines 485-485: list(np.round(np.mean(val_score, 1), decimals=2))
EnsCell24 == <<St({"np", "val_score"}, {})>>

\* lines 501-503: depths = np.arange(3,31,3)
EnsCell25 == <<Lit({"np"}, {"depths"}, RangeLen(3, 31, 3)),
    St({"RandomForestClassifier"}, {"learner"}),
    Like({"X", "depths", "learner", "validation_curve", "y"}, {"train_score", "val_score"}, "depths")>>

\* lines 512-530: plt.title('Random Forest')
EnsCell26 == PlotCurve("depths")

\* the mutant: the second validation_curve is assigned to the names of the
\* first, and rf_val_score is left unbound
EnsCell27SameNames == <<Lit({}, {"num_trees"}, 3),
    St({"DecisionTreeClassifier"}, {"tree_lrn"}),
    St({"BaggingClassifier", "tree_lrn"}, {"bag_lrn"}),
    St({"RandomForestClassifier"}, {"rf_lrn"}),
    Like({"X", "bag_lrn", "num_trees", "validation_curve", "y"}, {"bag_val_score", "train_score"}, "num_trees"),
    Like({"X", "num_trees", "rf_lrn", "validation_curve", "y"}, {"bag_val_score", "train_score"}, "num_trees")>>

\* lines 546-557: num_trees = [1,10,100]
EnsCell27 == <<Lit({}, {"num_trees"}, 3),
    St({"DecisionTreeClassifier"}, {"tree_lrn"}),
    St({"BaggingClassifier", "tree_lrn"}, {"bag_lrn"}),
    St({"RandomForestClassifier"}, {"rf_lrn"}),
    Like({"X", "bag_lrn", "num_trees", "validation_curve", "y"}, {"bag_val_score", "train_score"}, "num_trees"),
    Like({"X", "num_trees", "rf_lrn", "validation_curve", "y"}, {"rf_val_score", "train_score"}, "num_trees")>>

\* lines 566-585: the plot of the two validation curves against num_trees
PlotCompare == <<St({"plt"}, {}),
    Mean({"bag_val_score", "np"}, {"bag_val_score_mean"}, "bag_val_score"),
    Mean({"bag_val_score", "np"}, {"bag_val_score_std"}, "bag_val_score"),
    Mean({"np", "rf_val_score"}, {"rf_val_score_mean"}, "rf_val_score"),
    Mean({"np", "rf_val_score"}, {"rf_val_score_std"}, "rf_val_score"),
    St({"plt"}, {}),
    St({"plt"}, {}),
    Plot({"bag_val_score_mean", "bag_val_score_std", "num_trees", "plt"}, "num_trees"),
    Plot({"num_trees", "plt", "rf_val_score_mean", "rf_val_score_std"}, "num_trees"),
    Plot({"bag_val_score_mean", "num_trees", "plt"}, "num_trees"),
    Plot({"num_trees", "plt", "rf_val_score_mean"}, "num_trees"),
    St({"plt"}, {}),
    St({"plt"}, {}),
    St({"plt"}, {}),
    St({"plt"}, {})>>

\* lines 566-585: plt.title('Bagging vs. Random Forest')
EnsCell28 == PlotCompare

\* lines 613-614: mnist = pd.read_csv("../Datasets/MNIST/mnist_test.csv")
EnsCell29 == <<ReadCsv({"pd"}, {"mnist"}, "../Datasets/MNIST/mnist_test.csv", MnistRows),
    St({"mnist"}, {})>>

\* lines 623-623: mnist.shape
EnsCell30 == <<St({"mnist"}, {})>>

\* lines 639-643: mnist_X = mnist.drop("label",1)
EnsCell31 == <<Like({"mnist"}, {"mnist_X"}, "mnist"),
    Like({"mnist"}, {"mnist_y"}, "mnist"),
    Like({"mnist_X"}, {"X"}, "mnist_X"),
    Like({"mnist_y"}, {"y"}, "mnist_y"),
    Split({"X", "train_test_split", "y"}, {"X_test", "X_train", "y_test", "y_train"}, "X")>>

\* lines 659-665: plt.figure(figsize=(6,6))
EnsCell32 == <<St({"plt"}, {}),
    For({"mnist_X", "plt"}, {"digit_num", "grid_data"}, 64)>>

\* lines 681-686: tree_lrn = DecisionTreeClassifier(splitter='random')
EnsCell33 == <<St({"DecisionTreeClassifier"}, {"tree_lrn"}),
    St({"X_train", "tree_lrn", "y_train"}, {}),
    St({"X_test", "tree_lrn"}, {"y_pred"}),
    St({"accuracy_score", "y_pred", "y_test"}, {"test_score"}),
    St({"np", "test_score"}, {})>>

\* lines 695-695: int(tree_lrn.tree_.node_count), int(tree_lrn.tree_.max_depth
EnsCell34 == <<St({"tree_lrn"}, {})>>

\* lines 711-712: sizes = range(1000, 6666, 1000)
EnsCell35 == <<Lit({}, {"sizes"}, RangeLen(1000, 6666, 1000)),
    Like({"X", "learning_curve", "sizes", "tree_lrn", "y"}, {"train_score", "train_size", "val_score"}, "sizes")>>

\* lines 723-741: plt.title('Decision tree')
EnsCell36 == PlotCurve("train_size")

\* lines 757-760: tree_lrn = DecisionTreeClassifier(splitter='random')
EnsCell37 == <<St({"DecisionTreeClassifier"}, {"tree_lrn"}),
    St({"BaggingClassifier", "tree_lrn"}, {"bag_lrn"}),
    Lit({}, {"sizes"}, RangeLen(1000, 6666, 1000)),
    Like({"X", "bag_lrn", "learning_curve", "sizes", "y"}, {"train_score", "train_size", "val_score"}, "sizes")>>

\* lines 769-787: plt.title('Bagging')
EnsCell38 == PlotCurve("train_size")

\* lines 805-808: rf_lrn = RandomForestClassifier(n_estimators=10, max_depth=1
EnsCell39 == <<St({"RandomForestClassifier"}, {"rf_lrn"}),
    Lit({}, {"sizes"}, RangeLen(1000, 6666, 1000)),
    Like({"X", "learning_curve", "rf_lrn", "sizes", "y"}, {"train_score", "train_size", "val_score"}, "sizes")>>

\* lines 819-837: plt.title('Random Forest')
EnsCell40 == PlotCurve("train_size")

\* lines 855-857: depths = np.arange(3,31,3)
EnsCell41 == <<Lit({"np"}, {"depths"}, RangeLen(3, 31, 3)),
    St({"RandomForestClassifier"}, {"learner"}),
    Like({"X", "depths", "learner", "validation_curve", "y"}, {"train_score", "val_score"}, "depths")>>

\* lines 868-886: plt.title('Random Forest')
EnsCell42 == PlotCurve("depths")

\* lines 902-913: num_trees = [1,10,100]
EnsCell43 == <<Lit({}, {"num_trees"}, 3),
    St({"DecisionTreeClassifier"}, {"tree_lrn"}),
    St({"BaggingClassifier", "tree_lrn"}, {"bag_lrn"}),
    St({"RandomForestClassifier"}, {"rf_lrn"}),
    Like({"X", "bag_lrn", "num_trees", "validation_curve", "y"}, {"bag_val_score", "train_score"}, "num_trees"),
    Like({"X", "num_trees", "rf_lrn", "validation_curve", "y"}, {"rf_val_score", "train_score"}, "num_trees")>>

\* lines 922-941: plt.title('Bagging vs. Random Forest')
EnsCell44 == PlotCompare

EnsCells == <<EnsCell1, EnsCell2, EnsCell3, EnsCell4, EnsCell5, EnsCell6,
    EnsCell7, EnsCell8, EnsCell9, EnsCell10, EnsCell11, EnsCell12,
    EnsCell13, EnsCell14, EnsCell15, EnsCell16, EnsCell17, EnsCell18,
    EnsCell19, EnsCell20, EnsCell21, EnsCell22, EnsCell23, EnsCell24,
    EnsCell25, EnsCell26, EnsCell27, EnsCell28, EnsCell29, EnsCell30,
    EnsCell31, EnsCell32, EnsCell33, EnsCell34, EnsCell35, EnsCell36,
    EnsCell37, EnsCell38, EnsCell39, EnsCell40, EnsCell41, EnsCell42,
    EnsCell43, EnsCell44>>

Cells(n) == CASE n = "functions" -> FnCells
              [] n = "ensemble" -> EnsCells
              [] OTHER -> <<>>

\* fib(5), issued in a cell of its own ("issuing fib(5) now would result in
\* an error message")
AdHoc == <<St({"fib"}, {})>>
\* the names fibo.py defines
ModuleDefs == {"fib", "fib2"}

(***************************************************************************)
(* Running a cell: its statements run in order until one raises.           *)
(***************************************************************************)
Start(e, fl) ==
    [env |-> e, files |-> fl, tried |-> 0, done |-> 0, err |-> "none",
     iters |-> <<>>, attempts |-> 0, cf |-> {}, ext |-> {}, mine |-> {}]

\* the first-axis length of name x as statement st binds it
LenOf(st, x, rw) ==
    CASE st.k = "split" ->
            IF x \in {"X_train", "y_train"} THEN TrainRows(rw[st.a])
            ELSE TestRows(rw[st.a])
      [] st.k = "mean" -> MeanLen(ScoreAxis, rw[st.a])
      [] st.k \notin {"split", "mean"} /\ st.a # "" -> rw[st.a]
      [] OTHER -> st.len

\* the statement completes: its names are bound
Bind(st, s) ==
    [s EXCEPT
        !.env = [x \in DOMAIN s.env \cup st.w |->
                    IF x \in st.w THEN LenOf(st, x, s.env) ELSE s.env[x]],
        !.files = IF st.k = "writefile" THEN @ \cup {st.f} ELSE @,
        !.done = @ + 1,
        !.iters = Append(@, st.n),
        !.attempts = IF st.k = "read_csv" THEN @ + 1 ELSE @,
        !.cf = @ \cup st.cf,
        !.ext = @ \cup (st.r \ s.mine),
        !.mine = @ \cup st.w]

\* the mutant: a failed read binds the name all the same (to an empty frame)
ReadFailedBinds(st, s) ==
    [Bind(st, s) EXCEPT !.err = "IOError", !.done = s.done]

\* pd.read_csv raises: one attempt, nothing bound, the cell ends
ReadFailed(st, s) ==
    [s EXCEPT !.err = "IOError", !.attempts = @ + 1]

\* the mutant: the module is found wherever it is imported from
ModuleFoundAlways(f, fl) == TRUE

\* import finds a library, or the file of the working directory
ModuleFound(f, fl) == f = "" \/ f \in fl

\* the length of y as a plotting call receives it
PlotLen(st, y, rw) ==
    IF st.k = "plot_mean" THEN MeanLen(ScoreAxis, rw[y]) ELSE rw[y]

\* the x and y arrays of a plotting call differ in length
ShapeMismatch(st, rw) ==
    /\ st.k \in {"plot", "plot_mean"}
    /\ \E y \in st.r \ (Libs \cup {st.a}) : PlotLen(st, y, rw) # rw[st.a]

\* one statement: a name it reads is unbound, the file cannot be read, the
\* module is not found, the plotted arrays differ in length, or it completes
Exec(st, s, ioOK) ==
    LET t == [s EXCEPT !.tried = @ + 1]
    IN IF ~(st.r \subseteq DOMAIN s.env) THEN [t EXCEPT !.err = "NameError"]
       ELSE IF st.k = "read_csv" /\ ~ioOK THEN ReadFailed(st, t)
       ELSE IF st.k = "import" /\ ~ModuleFound(st.f, s.files)
            THEN [t EXCEPT !.err = "ModuleNotFoundError"]
       ELSE IF ShapeMismatch(st, s.env) THEN [t EXCEPT !.err = "ValueError"]
       ELSE Bind(st, t)

RECURSIVE RunAll(_, _, _)
RunAll(stmts, s, ioOK) ==
    IF stmts = <<>> THEN s
    ELSE RunAll(Tail(stmts), Exec(Head(stmts), s, ioOK), ioOK)

RECURSIVE RunUntilError(_, _, _)
RunUntilError(stmts, s, ioOK) ==
    IF stmts = <<>> \/ s.err # "none" THEN s
    ELSE RunUntilError(Tail(stmts), Exec(Head(stmts), s, ioOK), ioOK)

\* the mutant: the statements after the one that raised run too
RunStmtsPastError(stmts, s, ioOK) == RunAll(stmts, s, ioOK)

\* the statements of a cell run in order; the first that raises ends the cell
RunStmts(stmts, s, ioOK) == RunUntilError(stmts, s, ioOK)

RunCell(stmts, e, fl, ioOK) == RunStmts(stmts, Start(e, fl), ioOK)

\* whether the cell reads a CSV file
Loads(stmts) == \E i \in DOMAIN stmts : stmts[i].k = "read_csv"

\* what is kept of a run
Summary(kind, cell, stmts, s) ==
    [kind |-> kind, cell |-> cell, size |-> Len(stmts), err |-> s.err,
     tried |-> s.tried, done |-> s.done, iters |-> s.iters, attempts |-> s.attempts,
     cf |-> s.cf, ext |-> s.ext]

NoRun == [kind |-> "none", cell |-> 0, size |-> 0, err |-> "none", tried |-> 0, done |-> 0,
          iters |-> <<>>, attempts |-> 0, cf |-> {}, ext |-> {}]

(***************************************************************************)
(* SpecFun: the caller binds a list (object 1) or chooses n, and makes one *)
(* call.                                                                   *)
(***************************************************************************)
NoCall == [fn |-> "none", key |-> "id", pre |-> <<>>, ret |-> None, keyCalls |-> <<>>]

NbIdle ==
    /\ nb = "none"
    /\ env = <<>>
    /\ files = {}
    /\ cursor = 0
    /\ sel = 0
    /\ last = NoRun

InitFun ==
    /\ NbIdle
    /\ call = NoCall
    /\ \/ /\ etype \in {"int", "str", "tuple"}
          /\ \E lst \in SeqsUpTo(ElemsOf(etype), MaxLen) : heap = <<lst>>
          /\ arg = 1
       \/ /\ etype = "n"
          /\ heap = <<>>
          /\ arg \in -1..MaxN

\* get_counts(a)
CallGetCounts ==
    /\ call.fn = "none"
    /\ etype # "n"
    /\ heap' = Append(heap, get_counts(heap[arg]))
    /\ call' = [fn |-> "get_counts", key |-> "id", pre |-> heap,
                ret |-> Len(heap) + 1, keyCalls |-> <<>>]
    /\ UNCHANGED <<arg, etype>>
    /\ UNCHANGED nbVars

\* double_list(s)
CallDoubleList ==
    /\ call.fn = "none"
    /\ etype # "n"
    /\ LET r == double_list(etype, heap, arg)
       IN /\ heap' = r.heap
          /\ call' = [fn |-> "double_list", key |-> "id", pre |-> heap,
                      ret |-> r.ret, keyCalls |-> <<>>]
    /\ UNCHANGED <<arg, etype>>
    /\ UNCHANGED nbVars

\* fibo.fib2(n)
CallFib2 ==
    /\ call.fn = "none"
    /\ etype = "n"
    /\ heap' = Append(heap, fib2(arg))
    /\ call' = [fn |-> "fib2", key |-> "id", pre |-> heap,
                ret |-> Len(heap) + 1, keyCalls |-> <<>>]
    /\ UNCHANGED <<arg, etype>>
    /\ UNCHANGED nbVars

\* sorted(strings), sorted(strings, key = lambda x: len(x)),
\* sorted(student_tuples, key = lambda s: s[2])
CallSorted ==
    /\ call.fn = "none"
    /\ etype # "n"
    /\ \E key \in {"id", "len", "third"} :
          /\ key = "len" => etype = "str"
          /\ key = "third" => etype = "tuple"
          /\ LET r == sorted(key, etype, heap, arg)
             IN /\ heap' = r.heap
                /\ call' = [fn |-> "sorted", key |-> key, pre |-> heap,
                            ret |-> r.ret, keyCalls |-> r.keyCalls]
    /\ UNCHANGED <<arg, etype>>
    /\ UNCHANGED nbVars

NextFun == CallGetCounts \/ CallDoubleList \/ CallFib2 \/ CallSorted

SpecFun == InitFun /\ [][NextFun]_vars

(***************************************************************************)
(* Spec: a kernel session.  The namespace starts empty and fibo.py is not  *)
(* in the working directory.                                               *)
(***************************************************************************)
FunIdle ==
    /\ heap = <<>>
    /\ arg = 0
    /\ etype = "n"
    /\ call = NoCall

Init ==
    /\ FunIdle
    /\ nb \in {"functions", "ensemble"}
    /\ env = <<>>
    /\ files = {}
    /\ cursor = 1
    /\ sel = 0
    /\ last = NoRun

\* Shift+Enter: the selected cell runs and the selection moves to the next
\* cell, whether or not the cell raised.  pd.read_csv finds a well-formed
\* file (ioOK) or raises.
RunSelected ==
    /\ cursor \in DOMAIN Cells(nb)
    /\ \E ioOK \in (IF Loads(Cells(nb)[cursor]) THEN BOOLEAN ELSE {TRUE}) :
          LET stmts == Cells(nb)[cursor]
              s == RunCell(stmts, env, files, ioOK)
          IN /\ env' = s.env
             /\ files' = s.files
             /\ last' = Summary("cell", cursor, stmts, s)
    /\ cursor' = cursor + 1
    /\ UNCHANGED <<nb, sel>>
    /\ UNCHANGED funVars

\* the user selects a cell out of order
Select ==
    /\ sel < MaxSelects
    /\ \E c \in DOMAIN Cells(nb) :
          /\ c # cursor
          /\ cursor' = c
    /\ sel' = sel + 1
    /\ UNCHANGED <<nb, env, files, last>>
    /\ UNCHANGED funVars

\* the user issues fib(5) in a cell of their own (Part_04.ipynb)
IssueFib ==
    /\ nb = "functions"
    /\ sel < MaxSelects
    /\ LET s == RunCell(AdHoc, env, files, TRUE)
       IN /\ env' = s.env
          /\ files' = s.files
          /\ last' = Summary("adhoc", 0, AdHoc, s)
    /\ sel' = sel + 1
    /\ UNCHANGED <<nb, cursor>>
    /\ UNCHANGED funVars

Next == RunSelected \/ Select \/ IssueFib

Spec == Init /\ [][Next]_vars

(***************************************************************************)
(* Claims about the functions of Part_04.ipynb, under SpecFun.             *)
(***************************************************************************)
Occurrences(x, s) == Cardinality({j \in DOMAIN s : s[j] = x})

RECURSIVE SumCounts(_)
SumCounts(pairs) ==
    IF pairs = <<>> THEN 0 ELSE Head(pairs)[2] + SumCounts(Tail(pairs))

\* C1: get_counts(s) returns exactly one (element, count) pair per distinct
\* element of s, each count is the number of occurrences of the element in
\* s, the counts sum to len(s), and the empty list gives the empty list.
C1_GetCountsCounts ==
    call.fn = "get_counts" =>
        LET s == call.pre[arg]
            out == heap[call.ret]
        IN /\ \A x \in Range(s) :
                  Cardinality({i \in DOMAIN out : out[i][1] = x}) = 1
           /\ \A i \in DOMAIN out :
                  /\ out[i][1] \in Range(s)
                  /\ out[i][2] = Occurrences(out[i][1], s)
           /\ SumCounts(out) = Len(s)
           /\ (s = <<>> => out = <<>>)

\* a list with two distinct elements, one of them repeated, was counted
C1_Witness ==
    /\ call.fn = "get_counts"
    /\ Len(heap[call.ret]) >= 2
    /\ \E i \in DOMAIN heap[call.ret] : heap[call.ret][i][2] >= 2

\* C2: double_list changes the caller's list object in place: same length,
\* every position holds 2 times its old value (a str or tuple: the value
\* followed by itself); nothing is returned and no list is created.
C2_DoubleListInPlace ==
    call.fn = "double_list" =>
        LET old == call.pre[arg]
            new == heap[arg]
        IN /\ Len(new) = Len(old)
           /\ \A pos \in DOMAIN old :
                  IF etype = "int"
                  THEN new[pos] = old[pos] + old[pos]
                  ELSE /\ Len(new[pos]) = 2 * Len(old[pos])
                       /\ SubSeq(new[pos], 1, Len(old[pos])) = old[pos]
                       /\ SubSeq(new[pos], Len(old[pos]) + 1, Len(new[pos])) = old[pos]
           /\ call.ret = None
           /\ Len(heap) = Len(call.pre)

\* a list of two or more strings, the first not empty, was doubled
C2_Witness ==
    /\ call.fn = "double_list"
    /\ etype = "str"
    /\ Len(call.pre[arg]) >= 2
    /\ call.pre[arg][1] # <<>>
    /\ heap[arg] # call.pre[arg]

\* C3: for n >= 1, fib2(n) is the first n terms of 1, 1, 2, 3, 5, 8, 13, ...
C3_Fib2FirstTerms ==
    (call.fn = "fib2" /\ arg >= 1) =>
        LET out == heap[call.ret]
        IN /\ Len(out) = arg
           /\ out[1] = 1
           /\ (arg >= 2 => out[2] = 1)
           /\ \A k \in 3..arg : out[k] = out[k - 1] + out[k - 2]

\* fib2(7) was called and gave a list ending in 13
C3_Witness ==
    /\ call.fn = "fib2"
    /\ arg = 7
    /\ heap[call.ret] = <<1, 1, 2, 3, 5, 8, 13>>

\* C5: sorted returns a new list and leaves its argument untouched; the
\* result is a permutation of the input.
C5_SortedLeavesArgument ==
    call.fn = "sorted" =>
        LET in == call.pre[arg]
            out == heap[call.ret]
        IN /\ heap[arg] = in
           /\ call.ret # arg
           /\ Len(heap) = Len(call.pre) + 1
           /\ Len(out) = Len(in)
           /\ \A x \in Range(in) \cup Range(out) :
                  Occurrences(x, out) = Occurrences(x, in)

\* sorted by len reordered a list of strings
C5_Witness ==
    /\ call.fn = "sorted"
    /\ call.key = "len"
    /\ Len(heap[arg]) >= 3
    /\ heap[call.ret] # heap[arg]

Bound(x) == x \in DOMAIN env

\* the import cell of Part_04.ipynb: import fibo; fibo.fib(5)
ImportCell == CHOOSE c \in DOMAIN FnCells :
                  \E i \in DOMAIN FnCells[c] : FnCells[c][i].w = {"fibo"}

\* C4: after %%writefile fibo.py has run and before import fibo has, fib and
\* fib2 are not defined in the session and fib(5) ends in an error; fibo
\* (and with it fibo.fib) is bound only by a run of the import cell, and
\* that import succeeds only when the file had been written.
C4_ModuleOrder ==
    [][nb = "functions" =>
          /\ ("fibo.py" \in files' /\ ~Bound("fibo")') =>
                /\ \A d \in ModuleDefs : ~Bound(d)'
                /\ (last'.kind = "adhoc" => last'.err = "NameError")
          /\ (~Bound("fibo") /\ Bound("fibo")') =>
                /\ last'.kind = "cell"
                /\ last'.cell = ImportCell
                /\ last'.err = "none"
                /\ "fibo.py" \in files
          /\ (last'.kind = "cell" /\ last'.cell = ImportCell /\ last'.err = "none") =>
                /\ Bound("fibo")'
    ]_vars

\* fib(5) was issued after the file was written and before the import
C4_Witness ==
    /\ nb = "functions"
    /\ "fibo.py" \in files
    /\ ~Bound("fibo")
    /\ last.kind = "adhoc"
    /\ last.err = "NameError"

\* C7: the split of the Forest Cover Type data has proportions 2/3 - 1/3:
\* of the 15120 rows, two thirds are in X_train and y_train and one third
\* in X_test and y_test.
C7_SplitTwoThirds ==
    (nb = "ensemble" /\ last.kind = "cell" /\ last.err = "none"
        /\ "forest" \in last.ext /\ "train_test_split" \in last.ext) =>
        /\ env["X"] = ForestRows
        /\ 3 * env["X_train"] = 2 * env["X"]
        /\ 3 * env["y_train"] = 2 * env["y"]
        /\ 3 * env["X_test"] = env["X"]
        /\ 3 * env["y_test"] = env["y"]

\* C8 as stated: every cell is a straight line of statements, without loop
\* or branch, and no cell consumes a value another cell produced.
C8_StraightLineNoFlow ==
    last.kind = "cell" =>
        /\ last.cf = {}
        /\ \A i \in DOMAIN last.iters : last.iters[i] = 1
        /\ last.ext = {}

\* the cells that define or run a loop or a branch
LoopCells(n) ==
    {c \in DOMAIN Cells(n) :
        \E i \in DOMAIN Cells(n)[c] : Cells(n)[c][i].cf # {} \/ Cells(n)[c][i].n > 1}

\* C8, amended: the top-level statements of a cell run once each, in order,
\* up to the first that raises; a loop or a branch runs only in the cells
\* that hold one (in part_000 the digit grid alone); and what a cell
\* consumes from other cells it reads from the names bound in the session.
C8_TopLevelInOrder ==
    last.kind = "cell" =>
        /\ Len(last.iters) = last.done
        /\ last.err = "none" => (last.tried = last.size /\ last.done = last.size)
        /\ last.err # "none" => (last.tried = last.done + 1 /\ last.done < last.size)
        /\ (last.cf # {} \/ \E i \in DOMAIN last.iters : last.iters[i] > 1) =>
              last.cell \in LoopCells(nb)
        /\ (nb = "ensemble" /\ last.cf # {}) =>
              (last.cf = {"for"} /\ Cardinality(LoopCells(nb)) = 1)
        /\ last.ext \subseteq DOMAIN env

\* the digit grid ran: a loop of 64 iterations over a frame bound by an
\* earlier cell
C8_Witness ==
    /\ nb = "ensemble"
    /\ last.kind = "cell"
    /\ last.err = "none"
    /\ last.cf = {"for"}
    /\ \E i \in DOMAIN last.iters : last.iters[i] = 64
    /\ "mnist_X" \in last.ext

\* C9: a failed pd.read_csv ends its cell in the error after one read
\* attempt: no statement of the cell completes, nothing is bound, and the
\* session is as it was.
C9_LoadFailure ==
    [][last'.err = "IOError" =>
          /\ last'.kind = "cell"
          /\ Loads(Cells(nb)[last'.cell])
          /\ last'.attempts = 1
          /\ last'.tried = 1
          /\ last'.done = 0
          /\ env' = env
          /\ files' = files
    ]_vars

\* the read of the MNIST file failed, after the read of the forest file had
\* succeeded
C9_Witness ==
    /\ nb = "ensemble"
    /\ last.err = "IOError"
    /\ Bound("forest")
    /\ ~Bound("mnist")
    /\ cursor > last.cell

FailedReadBefore(c) ==
    \E d \in DOMAIN Cells(nb) :
        /\ d < c
        /\ \E i \in DOMAIN Cells(nb)[d] :
              /\ Cells(nb)[d][i].k = "read_csv"
              /\ ~(Cells(nb)[d][i].w \subseteq DOMAIN env)

PlotStmts(c) ==
    {EnsCells[c][i] : i \in {j \in DOMAIN EnsCells[c] :
                                EnsCells[c][j].k \in {"plot", "plot_mean"}}}
PlotCells == {c \in DOMAIN EnsCells : PlotStmts(c) # {}}

\* the x array of the plotting calls of cell c
XOf(c) == (CHOOSE st \in PlotStmts(c) : TRUE).a

\* the lengths of the y arrays the plotting calls of cell c receive
PlottedLens(c, rw) ==
    UNION {{PlotLen(st, y, rw) : y \in st.r \ (Libs \cup {st.a})} : st \in PlotStmts(c)}

\* the cell that reads the MNIST file
MnistCell == CHOOSE c \in DOMAIN EnsCells :
                 \E i \in DOMAIN EnsCells[c] : EnsCells[c][i].w = {"mnist"}

\* the number of x values stated for the plot of cell c
StatedLen(c) ==
    CASE XOf(c) = "train_size" /\ c < MnistCell -> 5
      [] XOf(c) = "train_size" /\ c > MnistCell -> 6
      [] XOf(c) = "depths" /\ (\E st \in PlotStmts(c) : st.k = "plot_mean") -> 7
      [] XOf(c) = "depths" /\ (\A st \in PlotStmts(c) : st.k = "plot") -> 10
      [] XOf(c) = "num_trees" -> 3

\* C11: a plotting cell that completes has plotted y arrays (the means and
\* standard deviations along axis 1) of the length of its x array; and run
\* after the cell above it, which computes its scores, it completes with
\* that length being 5 for the forest learning curves, 6 for the MNIST
\* learning curves, 7 for the tree depth sweep, 10 for the Random Forest
\* depth sweeps and 3 for the comparisons over the number of trees.
C11_PlotLengths ==
    [][(nb = "ensemble" /\ last'.kind = "cell" /\ last'.cell \in PlotCells) =>
          /\ last'.err = "none" =>
                PlottedLens(last'.cell, env') = {env'[XOf(last'.cell)]}
          /\ (last.kind = "cell" /\ last.err = "none"
                /\ last'.cell = last.cell + 1) =>
                /\ last'.err = "none"
                /\ env'[XOf(last'.cell)] = StatedLen(last'.cell)
    ]_vars

\* the last plot of part_000 was drawn over 3 numbers of trees, after the
\* MNIST learning curves over 6 sizes and the depth sweep over 10 depths
C11_Witness ==
    /\ nb = "ensemble"
    /\ last.kind = "cell"
    /\ last.cell = Len(EnsCells)
    /\ last.cell \in PlotCells
    /\ last.err = "none"
    /\ sel = 0
    /\ Bound("forest")
    /\ Bound("mnist")
    /\ env["num_trees"] = 3
    /\ env["rf_val_score_mean"] = 3
    /\ env["bag_val_score_std"] = 3
    /\ env["train_size"] = 6
    /\ env["depths"] = 10
    /\ env["val_score_mean"] = 10

====
